---- MODULE Spec2Model ----
(***************************************************************************)
(* audit_unwrap.py: a lexical scanner that walks the directory "crates",   *)
(* scans every *.rs file line by line and reports the lines that call      *)
(* .unwrap() outside test code.                                            *)
(*                                                                         *)
(* Text is modelled character by character: a Python str is a sequence of  *)
(* one-character strings, so that strip(), "in", startswith(), endswith(), *)
(* count() and the comparison of strings are computed as Python computes   *)
(* them.                                                                   *)
(***************************************************************************)
EXTENDS Integers, Sequences, FiniteSets, TLC

VARIABLES unreadable, content, stack, root, fnames, fpath, lines, i,
          in_test, brace_depth, test_start_depth, results,
          stdout, stderr, pc

vars == <<unreadable, content, stack, root, fnames, fpath, lines, i,
          in_test, brace_depth, test_start_depth, results,
          stdout, stderr, pc>>

(***************************************************************************)
(* Bounds                                                                  *)
(***************************************************************************)
\* longest file of the line-scanner specification SpecScan
MaxLines == 4

(***************************************************************************)
(* String literals of the program                                          *)
(***************************************************************************)
crate_dir == <<"c", "r", "a", "t", "e", "s">>
TargetInfix == <<"/", "t", "a", "r", "g", "e", "t", "/">>
RsSuffix == <<".", "r", "s">>
DisabledMarker == <<".", "d", "i", "s", "a", "b", "l", "e", "d">>
CfgTestMarker == <<"#", "[", "c", "f", "g", "(", "t", "e", "s", "t", ")", "]">>
TestMarker == <<"#", "[", "t", "e", "s", "t", "]">>
OpenBrace == "{"
CloseBrace == "}"
CommentPrefix == <<"/", "/">>
UnwrapCall == <<".", "u", "n", "w", "r", "a", "p", "(", ")">>
UnwrapOr == <<".", "u", "n", "w", "r", "a", "p", "_", "o", "r">>
PathSep == <<"/">>
SummaryPrefix == <<"\n", "T", "o", "t", "a", "l", " ", "n", "o", "n", "-", "t", "e", "s", "t", " ", ".", "u", "n", "w", "r", "a", "p", "(", ")", " ", "c", "a", "l", "l", "s", ":", " ">>

\* the characters str.strip() removes
Whitespace == {" ", "\t", "\n", "\r", "\f"}

\* code points of the characters the model uses (str comparison is by code point)
Ord ==
  ("\t" :> 9 @@ "\n" :> 10 @@ "\f" :> 12 @@ "\r" :> 13 @@ " " :> 32 @@
   "#" :> 35 @@ "(" :> 40 @@ ")" :> 41 @@ "." :> 46 @@ "/" :> 47 @@
   "0" :> 48 @@ "1" :> 49 @@ "2" :> 50 @@ "3" :> 51 @@ "4" :> 52 @@
   "5" :> 53 @@ "6" :> 54 @@ "7" :> 55 @@ "8" :> 56 @@ "9" :> 57 @@
   ":" :> 58 @@ ";" :> 59 @@ "=" :> 61 @@ "[" :> 91 @@ "]" :> 93 @@
   "_" :> 95 @@ "a" :> 97 @@ "b" :> 98 @@ "c" :> 99 @@ "d" :> 100 @@
   "e" :> 101 @@ "f" :> 102 @@ "g" :> 103 @@ "i" :> 105 @@ "l" :> 108 @@
   "m" :> 109 @@ "n" :> 110 @@ "o" :> 111 @@ "p" :> 112 @@ "r" :> 114 @@
   "s" :> 115 @@ "t" :> 116 @@ "u" :> 117 @@ "v" :> 118 @@ "w" :> 119 @@
   "x" :> 120 @@ "y" :> 121 @@ "{" :> 123 @@ "}" :> 125)

(***************************************************************************)
(* Python str operations                                                   *)
(***************************************************************************)
\* sub in s
Contains(s, sub) ==
  \E k \in 0..(Len(s) - Len(sub)) : SubSeq(s, k + 1, k + Len(sub)) = sub

\* s.startswith(p)
StartsWith(s, p) == Len(p) <= Len(s) /\ SubSeq(s, 1, Len(p)) = p

\* s.endswith(p)
EndsWith(s, p) ==
  Len(p) <= Len(s) /\ SubSeq(s, Len(s) - Len(p) + 1, Len(s)) = p

\* s.count(c) for a one-character c
Count(s, c) == Cardinality({k \in 1..Len(s) : s[k] = c})

\* s.lstrip()
RECURSIVE LStrip(_)
LStrip(s) ==
  IF s # <<>> /\ Head(s) \in Whitespace THEN LStrip(Tail(s)) ELSE s

\* s.rstrip()
RECURSIVE RStrip(_)
RStrip(s) ==
  IF s # <<>> /\ s[Len(s)] \in Whitespace
  THEN RStrip(SubSeq(s, 1, Len(s) - 1))
  ELSE s

\* s.strip()
Strip(s) == RStrip(LStrip(s))

\* a < b for two str
RECURSIVE StrLess(_, _)
StrLess(a, b) ==
  IF b = <<>> THEN FALSE
  ELSE IF a = <<>> THEN TRUE
  ELSE IF Ord[Head(a)] # Ord[Head(b)] THEN Ord[Head(a)] < Ord[Head(b)]
  ELSE StrLess(Tail(a), Tail(b))

\* str(n) for n >= 0
RECURSIVE Str(_)
Str(n) ==
  LET digit == <<"0", "1", "2", "3", "4", "5", "6", "7", "8", "9">>[(n % 10) + 1]
  IN  IF n < 10 THEN <<digit>> ELSE Append(Str(n \div 10), digit)

\* os.path.join(d, f) for a relative f and a d without a trailing separator
Join(d, f) == d \o PathSep \o f

(***************************************************************************)
(* The lines and files the model scans                                     *)
(***************************************************************************)
LTest == <<"#", "[", "t", "e", "s", "t", "]", "\n">>
LFnT == <<"f", "n", " ", "t", "(", ")", " ", "{", "\n">>
LFnMain == <<"f", "n", " ", "m", "a", "i", "n", "(", ")", " ", "{", "\n">>
LUnwrap == <<" ", " ", " ", " ", "l", "e", "t", " ", "x", " ", "=", " ", "f", "o", "o", ".", "u", "n", "w", "r", "a", "p", "(", ")", ";", "\n">>
LClose == <<"}", "\n">>
LComment == <<"/", "/", " ", "f", "o", "o", ".", "u", "n", "w", "r", "a", "p", "(", ")", " ", "e", "x", "a", "m", "p", "l", "e", "\n">>
LUnwrapOr == <<"l", "e", "t", " ", "x", " ", "=", " ", "f", "o", "o", ".", "u", "n", "w", "r", "a", "p", "_", "o", "r", "(", "0", ")", ";", "\n">>
LCfgTestMod == <<"#", "[", "c", "f", "g", "(", "t", "e", "s", "t", ")", "]", " ", "m", "o", "d", " ", "t", " ", "{", "\n">>
LTestInline == <<"#", "[", "t", "e", "s", "t", "]", " ", "f", "n", " ", "u", "(", ")", " ", "{", " ", "a", ".", "u", "n", "w", "r", "a", "p", "(", ")", ".", "b", ".", "u", "n", "w", "r", "a", "p", "(", ")", ";", " ", "}", "\n">>
LBoth == <<"l", "e", "t", " ", "y", " ", "=", " ", "a", ".", "u", "n", "w", "r", "a", "p", "(", ")", ".", "b", ".", "u", "n", "w", "r", "a", "p", "_", "o", "r", "(", "1", ")", ";", "\n">>
LCommentBrace == <<"/", "/", " ", "}", "\n">>

LineAlphabet ==
  {LTest, LFnT, LFnMain, LUnwrap, LClose, LComment, LUnwrapOr, LCfgTestMod,
   LTestInline, LBoth, LCommentBrace}

\* every file of 1..MaxLines lines over LineAlphabet
AllFiles == UNION {[1..n -> LineAlphabet] : n \in 1..MaxLines}

\* file contents of the whole-program specification
SrcMain == <<LFnMain, LUnwrap, LClose>>
SrcOpenTest == <<LUnwrap, LCfgTestMod, LUnwrap>>
SrcNegative == <<LClose, LUnwrap, LBoth, LUnwrap>>
SrcLate == <<LFnMain, LClose, LComment, LUnwrapOr, LUnwrap>>
Sources == {SrcMain, SrcOpenTest, SrcNegative, SrcLate}

\* the directory tree under crate_dir: os.scandir() of each directory
DirTarget == <<"c", "r", "a", "t", "e", "s", "/", "t", "a", "r", "g", "e", "t">>
DirDebug == <<"c", "r", "a", "t", "e", "s", "/", "t", "a", "r", "g", "e", "t", "/", "d", "e", "b", "u", "g">>
DirPriv == <<"c", "r", "a", "t", "e", "s", "/", "p", "r", "i", "v">>
FileA == <<"c", "r", "a", "t", "e", "s", "/", "a", ".", "r", "s">>
FileB == <<"c", "r", "a", "t", "e", "s", "/", "b", ".", "r", "s">>
FileT == <<"c", "r", "a", "t", "e", "s", "/", "t", "a", "r", "g", "e", "t", "/", "t", ".", "r", "s">>
FileD == <<"c", "r", "a", "t", "e", "s", "/", "t", "a", "r", "g", "e", "t", "/", "d", "e", "b", "u", "g", "/", "d", ".", "r", "s">>
FileP == <<"c", "r", "a", "t", "e", "s", "/", "p", "r", "i", "v", "/", "p", ".", "r", "s">>

Listing ==
  (crate_dir :> [dirs |-> {<<"t", "a", "r", "g", "e", "t">>, <<"p", "r", "i", "v">>},
                 files |-> {<<"a", ".", "r", "s">>, <<"b", ".", "r", "s">>, <<"n", ".", "m", "d">>}] @@
   DirTarget :> [dirs |-> {<<"d", "e", "b", "u", "g">>}, files |-> {<<"t", ".", "r", "s">>}] @@
   DirDebug  :> [dirs |-> {}, files |-> {<<"d", ".", "r", "s">>}] @@
   DirPriv   :> [dirs |-> {}, files |-> {<<"p", ".", "r", "s">>, <<"x", ".", "d", "i", "s", "a", "b", "l", "e", "d", ".", "r", "s">>}])

Dirs == DOMAIN Listing

\* the paths that may be unreadable (permission denied) in a run
MaybeUnreadable == {crate_dir, DirPriv, FileA, FileB}

\* the texts of the files: a.rs and b.rs vary, the others are fixed
FileSystems ==
  {(FileA :> a @@ FileB :> b @@ FileT :> SrcMain @@ FileD :> SrcMain @@
    FileP :> SrcNegative) : a \in Sources, b \in Sources}

(***************************************************************************)
(* The per-line scan, lines 22-40                                          *)
(***************************************************************************)
\* line 24: the trimmed line holds a test marker
IsMarker(stripped) ==
  Contains(stripped, CfgTestMarker) \/ Contains(stripped, TestMarker)

\* line 28 gone wrong: the closing braces are not counted
BraceDelta_opens(line) == Count(line, OpenBrace)

\* line 28: the change of brace_depth over one line
BraceDelta(line) == Count(line, OpenBrace) - Count(line, CloseBrace)

\* line 30 gone wrong: "<" for "<="
ExitsTest_strict(inTest, depth, startDepth) == inTest /\ depth < startDepth

\* line 30 gone wrong: the depth is compared with 0, not with the depth
\* recorded at the marker
ExitsTest_zero(inTest, depth, startDepth) == inTest /\ depth <= 0

\* line 30: the test block is left
ExitsTest(inTest, depth, startDepth) == inTest /\ depth <= startDepth

\* line 36 gone wrong: "==" for startswith
IsComment_exact(stripped) == stripped = CommentPrefix

\* line 36 gone wrong: the comment prefix of Python instead of that of Rust
IsComment_hash(stripped) == StartsWith(stripped, <<"#">>)

\* line 36: a full-line comment
IsComment(stripped) == StartsWith(stripped, CommentPrefix)

\* line 39 gone wrong: "or" for "and"
IsMatch_or(line) == Contains(line, UnwrapCall) \/ ~Contains(line, UnwrapOr)

\* line 39 gone wrong: the exclusion of .unwrap_or is missing
IsMatch_noexclusion(line) == Contains(line, UnwrapCall)

\* line 39: the pattern match
IsMatch(line) == Contains(line, UnwrapCall) /\ ~Contains(line, UnwrapOr)

\* lines 18-20 gone wrong: the state is initialised once, before the loops,
\* and a file starts in the state the previous file ended in
FreshState_carry(prev) == prev

\* lines 18-20: the scan state a file starts with, whatever the state the
\* previous file left behind
FreshState(prev) ==
  [in_test |-> FALSE, brace_depth |-> 0, test_start_depth |-> 0]

\* line 40 gone wrong: one result for every .unwrap() on the line
NewResults_perCall(p, n, line, stripped) ==
  [k \in 1..Cardinality({j \in 0..(Len(line) - Len(UnwrapCall)) :
                           SubSeq(line, j + 1, j + Len(UnwrapCall)) = UnwrapCall})
     |-> <<p, n, stripped>>]

\* line 40: what a flagged line adds to results: one tuple, however many
\* times the pattern occurs on the line
NewResults(p, n, line, stripped) == << <<p, n, stripped>> >>

\* what lines 23, 24, 28, 36 and 39 compute from the text of the line alone,
\* for every line the model scans
LineFacts ==
  [l \in LineAlphabet |->
     [stripped |-> Strip(l),
      marker |-> IsMarker(Strip(l)),
      delta |-> BraceDelta(l),
      comment |-> IsComment(Strip(l)),
      match |-> IsMatch(l)]]

\* lines 22-40 gone wrong: the "if in_test: continue" of lines 33-34 is missing
LineStep_noskip(st, line) ==
  LET f == LineFacts[line]
      in1 == IF f.marker THEN TRUE ELSE st.in_test
      start1 == IF f.marker THEN st.brace_depth ELSE st.test_start_depth
      depth1 == st.brace_depth + f.delta
      in2 == IF ExitsTest(in1, depth1, start1) THEN FALSE ELSE in1
  IN  [in_test |-> in2, brace_depth |-> depth1, test_start_depth |-> start1,
       emit |-> ~f.comment /\ f.match,
       stripped |-> f.stripped]

\* one iteration of the loop of line 22 from the state st; emit tells
\* whether line 40 appends a result
LineStep(st, line) ==
  LET f == LineFacts[line]
      in1 == IF f.marker THEN TRUE ELSE st.in_test
      start1 == IF f.marker THEN st.brace_depth ELSE st.test_start_depth
      depth1 == st.brace_depth + f.delta
      in2 == IF ExitsTest(in1, depth1, start1) THEN FALSE ELSE in1
  IN  [in_test |-> in2, brace_depth |-> depth1, test_start_depth |-> start1,
       emit |-> ~in2 /\ ~f.comment /\ f.match,
       stripped |-> f.stripped]

(***************************************************************************)
(* The report, lines 42-45                                                 *)
(***************************************************************************)
\* a < b for two result tuples (fpath, i, stripped)
TupleLess(a, b) ==
  IF a[1] # b[1] THEN StrLess(a[1], b[1])
  ELSE IF a[2] # b[2] THEN a[2] < b[2]
  ELSE StrLess(a[3], b[3])

\* line 42 gone wrong: the results are printed in the order they were found
Sorted_unsorted(rs) == rs

\* sorted(results)
Sorted(rs) == SortSeq(rs, TupleLess)

\* f"{fpath}:{line}: {code}"
Render(r) == r[1] \o <<":">> \o Str(r[2]) \o <<":", " ">> \o r[3]

\* line 45 gone wrong: the files with results are counted, not the results
Total_files(rs) == Cardinality({rs[k][1] : k \in 1..Len(rs)})

\* len(results)
Total(rs) == Len(rs)

\* f"\nTotal non-test .unwrap() calls: {len(results)}"
Summary(rs) == SummaryPrefix \o Str(Total(rs))

\* lines 15-16 gone wrong: the error is caught and the loop goes on to the
\* next file
ReadErrorPc_continue == "files"

\* where an OSError raised by open() leaves the program: nothing catches it
ReadErrorPc == "crashed"

(***************************************************************************)
(* The program                                                             *)
(***************************************************************************)
Init ==
  /\ unreadable \in SUBSET MaybeUnreadable
  /\ content \in FileSystems
  /\ stack = <<crate_dir>>
  /\ root = <<>>
  /\ fnames = {}
  /\ fpath = <<>>
  /\ lines = <<>>
  /\ i = 0
  /\ in_test = FALSE
  /\ brace_depth = 0
  /\ test_start_depth = 0
  /\ results = <<>>
  /\ stdout = <<>>
  /\ stderr = <<>>
  /\ pc = "walk"

\* os.walk, line 8: scandir() of the next directory fails; onerror is None,
\* so the error is ignored and the directory is neither yielded nor descended
WalkError ==
  /\ pc = "walk"
  /\ stack # <<>>
  /\ Head(stack) \in unreadable
  /\ stack' = Tail(stack)
  /\ UNCHANGED <<unreadable, content, root, fnames, fpath, lines, i, in_test,
                 brace_depth, test_start_depth, results, stdout, stderr, pc>>

\* the orders in which scandir() may list the subdirectories of d
DirOrders(d) ==
  LET subs == {Join(d, n) : n \in Listing[d].dirs}
  IN  {o \in [1..Cardinality(subs) -> subs] :
         \A j, k \in DOMAIN o : j # k => o[j] # o[k]}

\* lines 8-10: os.walk yields a directory under a /target/ path: continue
WalkSkipTarget ==
  /\ pc = "walk"
  /\ stack # <<>>
  /\ Head(stack) \notin unreadable
  /\ Contains(Head(stack), TargetInfix)
  /\ \E o \in DirOrders(Head(stack)) : stack' = o \o Tail(stack)
  /\ root' = Head(stack)
  /\ fnames' = Listing[Head(stack)].files
  /\ UNCHANGED <<unreadable, content, fpath, lines, i, in_test, brace_depth,
                 test_start_depth, results, stdout, stderr, pc>>

\* lines 8-11: os.walk yields a directory whose files are looped over
WalkYield ==
  /\ pc = "walk"
  /\ stack # <<>>
  /\ Head(stack) \notin unreadable
  /\ ~Contains(Head(stack), TargetInfix)
  /\ \E o \in DirOrders(Head(stack)) : stack' = o \o Tail(stack)
  /\ root' = Head(stack)
  /\ fnames' = Listing[Head(stack)].files
  /\ pc' = "files"
  /\ UNCHANGED <<unreadable, content, fpath, lines, i, in_test, brace_depth,
                 test_start_depth, results, stdout, stderr>>

\* line 11: the loop over fnames is exhausted
EndDir ==
  /\ pc = "files"
  /\ fnames = {}
  /\ pc' = "walk"
  /\ UNCHANGED <<unreadable, content, stack, root, fnames, fpath, lines, i,
                 in_test, brace_depth, test_start_depth, results, stdout,
                 stderr>>

\* line 12: the file name is not one to scan
Filtered(f) == ~EndsWith(f, RsSuffix) \/ Contains(f, DisabledMarker)

\* lines 11-13: the next file name is filtered out
SkipFile ==
  /\ pc = "files"
  /\ \E f \in fnames :
       /\ Filtered(f)
       /\ fnames' = fnames \ {f}
  /\ UNCHANGED <<unreadable, content, stack, root, fpath, lines, i, in_test,
                 brace_depth, test_start_depth, results, stdout, stderr, pc>>

\* lines 11-16: open() or readlines() of the next file raises; the exception
\* is not caught, the traceback goes to stderr and nothing is printed
ReadError ==
  /\ pc = "files"
  /\ \E f \in fnames :
       /\ ~Filtered(f)
       /\ Join(root, f) \in unreadable
       /\ fnames' = fnames \ {f}
       /\ fpath' = Join(root, f)
       /\ stderr' = Append(stderr, Join(root, f))
  /\ pc' = ReadErrorPc
  /\ UNCHANGED <<unreadable, content, stack, root, lines, i, in_test,
                 brace_depth, test_start_depth, results, stdout>>

\* lines 11-20: the next file is read and the scan state is initialised
OpenFile ==
  /\ pc = "files"
  /\ \E f \in fnames :
       /\ ~Filtered(f)
       /\ Join(root, f) \notin unreadable
       /\ fnames' = fnames \ {f}
       /\ fpath' = Join(root, f)
       /\ lines' = content[Join(root, f)]
       /\ pc' = IF content[Join(root, f)] = <<>> THEN "files" ELSE "scan"
  /\ i' = 0
  /\ LET st == FreshState([in_test |-> in_test, brace_depth |-> brace_depth,
                           test_start_depth |-> test_start_depth])
     IN  /\ in_test' = st.in_test
         /\ brace_depth' = st.brace_depth
         /\ test_start_depth' = st.test_start_depth
  /\ UNCHANGED <<unreadable, content, stack, root, results, stdout, stderr>>

\* lines 22-40: one line of the file is processed
ScanLine ==
  /\ pc = "scan"
  /\ i < Len(lines)
  /\ LET st == LineStep([in_test |-> in_test, brace_depth |-> brace_depth,
                         test_start_depth |-> test_start_depth], lines[i + 1])
     IN  /\ in_test' = st.in_test
         /\ brace_depth' = st.brace_depth
         /\ test_start_depth' = st.test_start_depth
         /\ results' = IF st.emit
                       THEN results \o NewResults(fpath, i + 1, lines[i + 1],
                                                  st.stripped)
                       ELSE results
  /\ i' = i + 1
  /\ pc' = IF i + 1 = Len(lines) THEN "files" ELSE "scan"
  /\ UNCHANGED <<unreadable, content, stack, root, fnames, fpath, lines,
                 stdout, stderr>>

\* lines 42-45: os.walk is exhausted; the sorted results and the summary are
\* printed, one element of stdout per print() call
Report ==
  /\ pc = "walk"
  /\ stack = <<>>
  /\ stdout' = [k \in 1..Len(results) |-> Render(Sorted(results)[k])]
                 \o <<Summary(results)>>
  /\ pc' = "done"
  /\ UNCHANGED <<unreadable, content, stack, root, fnames, fpath, lines, i,
                 in_test, brace_depth, test_start_depth, results, stderr>>

Next ==
  \/ WalkError
  \/ WalkSkipTarget
  \/ WalkYield
  \/ EndDir
  \/ SkipFile
  \/ ReadError
  \/ OpenFile
  \/ ScanLine
  \/ Report

Spec == Init /\ [][Next]_vars

(***************************************************************************)
(* The line scanner alone: one file of any lines, just opened              *)
(***************************************************************************)
InitScan ==
  /\ unreadable = {}
  /\ lines \in AllFiles
  /\ content = (FileA :> lines)
  /\ stack = <<>>
  /\ root = crate_dir
  /\ fnames = {}
  /\ fpath = FileA
  /\ i = 0
  /\ in_test = FALSE
  /\ brace_depth = 0
  /\ test_start_depth = 0
  /\ results = <<>>
  /\ stdout = <<>>
  /\ stderr = <<>>
  /\ pc = "scan"

NextScan == ScanLine

SpecScan == InitScan /\ [][NextScan]_vars

(***************************************************************************)
(* What a run must produce, stated from the file system and the lines      *)
(***************************************************************************)
\* the scan state before the first line of a file
ZeroState == [in_test |-> FALSE, brace_depth |-> 0, test_start_depth |-> 0]

\* the outcome of the k-th line of ls when ls is scanned from ZeroState
RECURSIVE StateAfter(_, _)
StateAfter(ls, k) ==
  IF k = 0 THEN ZeroState ELSE LineStep(StateAfter(ls, k - 1), ls[k])

\* the results the first n lines of the file p with lines ls give, in order
RECURSIVE Emitted(_, _, _)
Emitted(p, ls, n) ==
  IF n = 0 THEN <<>>
  ELSE LET st == StateAfter(ls, n)
       IN  IF st.emit THEN Append(Emitted(p, ls, n - 1), <<p, n, st.stripped>>)
           ELSE Emitted(p, ls, n - 1)

\* the results of rs that belong to the file p
ResultsOf(rs, p) == LET OfP(r) == r[1] = p IN SelectSeq(rs, OfP)

\* a is a proper ancestor directory of the path d
IsAncestor(a, d) == StartsWith(d, a \o PathSep)

\* os.walk tries to list d: every directory above it could be listed
Attempted(d) == \A a \in Dirs : IsAncestor(a, d) => a \notin unreadable

\* the files a run that does not crash reads
ScannedFiles ==
  UNION {{Join(d, f) : f \in {g \in Listing[d].files : ~Filtered(g)}} :
           d \in {e \in Dirs : /\ Attempted(e)
                               /\ e \notin unreadable
                               /\ ~Contains(e, TargetInfix)}}

\* the results a run that does not crash collects, as a set
ExpectedFindings ==
  UNION {{Emitted(p, content[p], Len(content[p]))[k] :
            k \in 1..Len(Emitted(p, content[p], Len(content[p])))} :
           p \in ScannedFiles}

\* order by file path, then by line number
KeyLess(a, b) == StrLess(a[1], b[1]) \/ (a[1] = b[1] /\ a[2] < b[2])

\* int(s) for a str of decimal digits
RECURSIVE ParseInt(_)
ParseInt(s) ==
  IF s = <<>> THEN 0
  ELSE 10 * ParseInt(SubSeq(s, 1, Len(s) - 1)) + (Ord[s[Len(s)]] - Ord["0"])

\* a path with a proper segment equal to "target": a file or directory
\* below a directory named target
UnderTarget(p) == Contains(PathSep \o p, TargetInfix)

(***************************************************************************)
(* C1                                                                      *)
(***************************************************************************)
\* the spec's scenario 2: the four lines #[test] / fn t() { /
\* let x = foo.unwrap(); / } give no Finding.
C1_Scenario ==
  (lines = <<LTest, LFnT, LUnwrap, LClose>> /\ i = 4) => results = <<>>

\* C1: when a test-marker line m is met outside test mode and the block
\* opened at or after it closes, correctly nested, back to the depth seen
\* before m at line c, no line of m..c is a Finding; in particular scenario 2
\* gives no Finding.
C1_TestBlockNeverFlagged ==
  /\ C1_Scenario
  /\ LET tr == [k \in 0..i |-> StateAfter(lines, k)]
     IN  \A m \in 1..i :
           (IsMarker(Strip(lines[m])) /\ ~tr[m - 1].in_test) =>
             \A c \in m..i :
               ( /\ tr[c].brace_depth = tr[m - 1].brace_depth
                 /\ \E o \in m..(c - 1) :
                      tr[o].brace_depth > tr[m - 1].brace_depth
                 /\ \A j \in m..(c - 1) :
                      /\ tr[j].brace_depth >= tr[m - 1].brace_depth
                      /\ (\E o \in m..(j - 1) :
                            tr[o].brace_depth > tr[m - 1].brace_depth)
                         => tr[j].brace_depth > tr[m - 1].brace_depth )
               => \A r \in 1..Len(results) : results[r][2] \notin m..c

(***************************************************************************)
(* C2                                                                      *)
(***************************************************************************)
\* C2: the printed Finding lines are the results the file system determines,
\* each at the position its (path, line number) key gives it, so the output
\* is the same whatever order the directories and files were listed in.
C2_OutputOrderedByPathThenLine ==
  pc = "done" =>
    /\ Len(stdout) = Cardinality(ExpectedFindings) + 1
    /\ \A f \in ExpectedFindings :
         stdout[1 + Cardinality({g \in ExpectedFindings : KeyLess(g, f)})]
           = Render(f)

\* a finished run that scanned b.rs before a.rs and found something in both
C2_Witness ==
  /\ pc = "done"
  /\ \E j, k \in 1..Len(results) :
       j < k /\ results[j][1] = FileB /\ results[k][1] = FileA

(***************************************************************************)
(* C3                                                                      *)
(***************************************************************************)
\* C3: no file below a directory named target is scanned or has a Finding.
C3_TargetNeverScanned ==
  /\ pc = "scan" => ~UnderTarget(fpath)
  /\ \A r \in 1..Len(results) : ~UnderTarget(results[r][1])

(***************************************************************************)
(* C4                                                                      *)
(***************************************************************************)
\* C4: a run in which os.walk met a directory it could not list does not
\* complete normally with a report.
C4_UnreadableDirAborts ==
  pc = "done" => \A d \in Dirs : Attempted(d) => d \notin unreadable

(***************************************************************************)
(* C5                                                                      *)
(***************************************************************************)
\* C5: once the read of a file has failed the run has terminated with the
\* error and standard output is empty: no Finding line, no summary line.
C5_ReadErrorPrintsNothing ==
  stderr # <<>> => (pc = "crashed" /\ stdout = <<>>)

\* a read failed after results had been collected from another file
C5_Witness == stderr # <<>> /\ pc = "crashed" /\ Len(results) >= 1

(***************************************************************************)
(* C6                                                                      *)
(***************************************************************************)
\* C6: every file starts from in_test = FALSE, brace_depth = 0,
\* test_start_depth = 0, and the results of a file are those its own lines
\* give from that state, whatever was scanned before it.
C6_FreshStatePerFile ==
  /\ (pc = "scan" /\ i = 0) =>
       (in_test = FALSE /\ brace_depth = 0 /\ test_start_depth = 0)
  /\ pc = "scan" => ResultsOf(results, fpath) = Emitted(fpath, lines, i)
  /\ pc = "done" =>
       \A p \in ScannedFiles :
         ResultsOf(results, p) = Emitted(p, content[p], Len(content[p]))

\* a finished run in which a file with a Finding was scanned after a file
\* that ended inside a test block at depth 1, and another after a file that
\* ended at a negative depth
C6_Witness ==
  /\ pc = "done"
  /\ \E j, k \in 1..Len(results) :
       /\ j < k
       /\ content[results[j][1]] = SrcOpenTest
       /\ results[k][1] # results[j][1]
       /\ content[results[k][1]] = SrcMain
  /\ \E j, k \in 1..Len(results) :
       /\ j < k
       /\ content[results[j][1]] = SrcNegative
       /\ results[k][1] # results[j][1]

(***************************************************************************)
(* C7                                                                      *)
(***************************************************************************)
\* C7 (the spec's scenario 1): fn main() { / let x = foo.unwrap(); / } gives
\* exactly one Finding, line 2, text "let x = foo.unwrap();".
C7_Scenario ==
  (lines = <<LFnMain, LUnwrap, LClose>> /\ i = 3) =>
    results = << <<fpath, 2, <<"l", "e", "t", " ", "x", " ", "=", " ", "f", "o", "o", ".", "u", "n", "w", "r", "a", "p", "(", ")", ";">>>> >>

\* C7: a line is appended to the results, with its 1-indexed number and its
\* trimmed text, if and only if after the line the scanner is not in test
\* mode, the trimmed line does not start with //, and the raw line contains
\* .unwrap() and not .unwrap_or; and scenario 1 gives its one Finding.
C7_FindingIffMatch ==
  /\ []C7_Scenario
  /\ [][(pc = "scan" /\ i' = i + 1) =>
          LET line == lines[i + 1]
              flagged == /\ ~in_test'
                         /\ ~StartsWith(Strip(line), CommentPrefix)
                         /\ Contains(line, UnwrapCall)
                         /\ ~Contains(line, UnwrapOr)
          IN  results' = IF flagged
                         THEN Append(results, <<fpath, i + 1, Strip(line)>>)
                         ELSE results]_vars

\* scenario 1 scanned to its end
C7_Witness == lines = <<LFnMain, LUnwrap, LClose>> /\ i = 3 /\ Len(results) = 1

(***************************************************************************)
(* C8                                                                      *)
(***************************************************************************)
\* C8: the Findings of a file are never more than its lines, among those
\* processed so far, that contain .unwrap().
C8_FindingsAtMostUnwrapLines ==
  Len(results) <= Cardinality({k \in 1..i : Contains(lines[k], UnwrapCall)})

\* a whole file scanned, with a Finding and with an .unwrap() line not flagged
C8_Witness ==
  /\ i = Len(lines)
  /\ Len(results) >= 1
  /\ Len(results) < Cardinality({k \in 1..i : Contains(lines[k], UnwrapCall)})

(***************************************************************************)
(* C9                                                                      *)
(***************************************************************************)
\* C9: the report ends with the summary, whose number is the number of
\* Finding lines printed before it; with no results it is the summary alone,
\* with count 0.
C9_SummaryCountsFindingLines ==
  pc = "done" =>
    LET n == Len(stdout) - 1
    IN  /\ n >= 0
        /\ StartsWith(stdout[n + 1], SummaryPrefix)
        /\ ParseInt(SubSeq(stdout[n + 1], Len(SummaryPrefix) + 1,
                           Len(stdout[n + 1]))) = n
        /\ \A k \in 1..n : ~StartsWith(stdout[k], SummaryPrefix)
        /\ results = <<>> => stdout = <<SummaryPrefix \o <<"0">> >>

\* a report with Findings of several files, one of them with two
C9_Witness ==
  /\ pc = "done"
  /\ Len(stdout) >= 4
  /\ \E j, k \in 1..Len(results) : j # k /\ results[j][1] = results[k][1]

(***************************************************************************)
(* C10                                                                     *)
(***************************************************************************)
\* C10: no Finding is a line that contains .unwrap_or.
C10_UnwrapOrNeverFlagged ==
  \A r \in 1..Len(results) : ~Contains(lines[results[r][2]], UnwrapOr)

\* a line with both .unwrap() and .unwrap_or was processed outside test mode
C10_Witness ==
  /\ i >= 1
  /\ Contains(lines[i], UnwrapCall)
  /\ Contains(lines[i], UnwrapOr)
  /\ ~in_test

(***************************************************************************)
(* C11                                                                     *)
(***************************************************************************)
\* C11: no Finding is a line whose trimmed text starts with //.
C11_CommentNeverFlagged ==
  \A r \in 1..Len(results) :
    ~StartsWith(Strip(lines[results[r][2]]), CommentPrefix)

\* a full-line comment holding .unwrap() was processed outside test mode
C11_Witness ==
  /\ i >= 1
  /\ StartsWith(Strip(lines[i]), CommentPrefix)
  /\ Contains(lines[i], UnwrapCall)
  /\ ~in_test

(***************************************************************************)
(* C12                                                                     *)
(***************************************************************************)
\* C12: a marker line processed while the scanner is already in test mode
\* leaves test_start_depth unchanged.
C12_MarkerInTestKeepsStartDepth ==
  [][(pc = "scan" /\ i' = i + 1 /\ in_test /\ IsMarker(Strip(lines[i + 1])))
       => test_start_depth' = test_start_depth]_vars

(***************************************************************************)
(* C13                                                                     *)
(***************************************************************************)
\* C13: a line with a test marker and .unwrap(), processed while the scanner
\* is not in test mode, is never appended to the results.
C13_MarkerLineSuppressed ==
  [][(/\ pc = "scan"
      /\ i' = i + 1
      /\ ~in_test
      /\ IsMarker(Strip(lines[i + 1]))
      /\ Contains(lines[i + 1], UnwrapCall))
       => results' = results]_vars

RECURSIVE BraceSum(_, _)
BraceSum(ls, k) ==
  IF k = 0 THEN 0
  ELSE BraceSum(ls, k - 1) + Count(ls[k], OpenBrace) - Count(ls[k], CloseBrace)

\* C15: after k lines brace_depth is the number of { minus the number of }
\* in those lines, whatever the lines and the test mode were.
C15_DepthIsBraceBalance == brace_depth = BraceSum(lines, i)

\* a negative depth reached over a marker line and full-line comments
C15_Witness ==
  /\ lines = <<LCfgTestMod, LCommentBrace, LCommentBrace>>
  /\ i = 3
  /\ brace_depth = -1

(***************************************************************************)
(* C16                                                                     *)
(***************************************************************************)
\* C16: a step that appends a Finding ends with in_test false.
C16_FindingOnlyOutsideTest ==
  [][results' # results => (pc = "scan" /\ ~in_test')]_vars

\* a Finding after a test module in which the same line was passed over
C16_Witness ==
  /\ lines = <<LCfgTestMod, LUnwrap, LClose, LUnwrap>>
  /\ i = 4
  /\ Len(results) = 1
  /\ results[1][2] = 4

(***************************************************************************)
(* C17                                                                     *)
(***************************************************************************)
\* C17: after every line in_test implies brace_depth > test_start_depth, and
\* after a marker line that has no more { than } the scanner is not in test
\* mode.
C17_InTestMeansDeeper ==
  /\ in_test => brace_depth > test_start_depth
  /\ ( /\ i >= 1
       /\ IsMarker(Strip(lines[i]))
       /\ Count(lines[i], OpenBrace) <= Count(lines[i], CloseBrace) )
     => ~in_test

\* a marker alone on its line, met inside a function body and inside a test
\* module
C17_Witness ==
  /\ i = 2
  /\ lines[2] = LTest
  /\ lines[1] \in {LFnMain, LCfgTestMod}
  /\ ~in_test
  /\ brace_depth = 1

(***************************************************************************)
(* C18                                                                     *)
(***************************************************************************)
\* C18: the results of a file have strictly increasing line numbers: a line
\* gives at most one Finding and no (path, line number) pair is there twice.
C18_OneFindingPerLine ==
  \A j, k \in 1..Len(results) :
    (j < k /\ results[j][1] = results[k][1]) => results[j][2] < results[k][2]

\* a line with two .unwrap() calls flagged once, and a later line flagged
C18_Witness ==
  /\ Len(results) = 2
  /\ lines[results[1][2]] = LTestInline
  /\ results[2][2] > results[1][2]

====
